---- MODULE Spec2Model ----
(***************************************************************************)
(* A model of the orchestration core of the T+1 stock analysis system:     *)
(*   - LLMService._parse_response           (src/llm_service.py)           *)
(*   - LLMService.analyze_stock and llm_cache (src/llm_service.py)         *)
(*   - MultiRoleAnalyzer.analyze and its four nodes                        *)
(*                                          (src/analysis_framework.py)    *)
(*   - StockAnalysisSystem.analyze_multiple_stocks / save_results          *)
(*                                          (src/main.py)                  *)
(*                                                                         *)
(* Chinese string literals of the source are written in pinyin:            *)
(*   "jianyi" = 建议, "tuijian_yuanyin" = 推荐原因, "dongzuo" = 动作,        *)
(*   "yuce_jiage" = 预测价格, "yuce_mairu_jiage" = 预测买入价格,             *)
(*   "yuce_maichu_jiage" = 预测卖出价格, "yuce_xinxin" = 预测信心,           *)
(*   the suffix "_T1" = "_T+1"; "baochi" = 保持 (hold), "mairu" = 买入      *)
(*   (buy), "mai" = 买, "fenxi_wancheng" = 分析完成 (analysis complete),    *)
(*   "fenxi_cuowu" = 分析过程中出现错误, "weizhi" = 未知.                    *)
(* Floats are written in tenths: 8 is 0.8, -5 is -0.5, 105 is 10.5.        *)
(***************************************************************************)
EXTENDS Integers, Sequences, FiniteSets, TLC

VARIABLES
    \* ---- _parse_response on its own
    response,        \* the text handed to _parse_response
    parsed,          \* its outcome; NotRun before the call
    \* ---- the analyzers and the cache
    now,             \* time.time(), in hours
    dst,             \* local time is one hour ahead (daylight saving time)
    llm_cache,       \* the module-level dict: cache_key -> (result, timestamp)
    pc,              \* position of the analyzer call in progress
    mode,            \* "multi" (MultiRoleAnalyzer.analyze) or "single"
    stock_data,      \* the snapshot argument: [code, current_price]
    history_ok,      \* FALSE: a history bar holds close = None
    state,           \* MessageState: the text fields of the four-node graph
    in_fallback,     \* analyze is inside its except branch (line 217)
    cache_key,       \* cache_key of the analyzer that is running
    llm_calls,       \* language-model calls issued by the call in progress
    ret,             \* what the call in progress returned or raised
    ncalls,          \* calls begun so far
    log,             \* history of the call in progress, and the clock steps
    \* ---- analyze_multiple_stocks and save_results
    stock_codes,     \* the argument: a list of stock codes
    save_batch_size, \* the argument; 0 is None
    output_file,     \* the argument is given (TRUE) or None
    use_multi_role,  \* self.use_multi_role
    bpc,             \* position of analyze_multiple_stocks
    stock_infos,     \* code -> profile, from get_batch_stock_info
    real_time_data_dict,  \* full_code -> snapshot
    history_data_dict,    \* full_code -> the history is well formed
    fetches,         \* calls made to the collaborators
    tasks,           \* the pool's tasks, one per element of stock_codes
    finished,        \* indices of the tasks in the order they completed
    results,         \* the list results
    temp_results,    \* the list temp_results
    sink,            \* the output file
    sink0            \* the output file as the run found it

parseVars == <<response, parsed>>
clockVars == <<now, dst>>
callVars == <<pc, mode, stock_data, history_ok, state, in_fallback, cache_key,
              llm_calls, ret, ncalls, log>>
batchVars == <<stock_codes, save_batch_size, output_file, use_multi_role, bpc,
               stock_infos, real_time_data_dict, history_data_dict, fetches,
               tasks, finished, results, temp_results, sink, sink0>>
vars == <<parseVars, clockVars, llm_cache, callVars, batchVars>>

(***************************************************************************)
(* JSON values and response texts                                          *)
(***************************************************************************)
Str(s) == [t |-> "str", n |-> 0, s |-> s]
Num(n) == [t |-> "num", n |-> n, s |-> ""]
Null == [t |-> "null", n |-> 0, s |-> ""]
List == [t |-> "list", n |-> 0, s |-> ""]

\* A response text is a sequence of tokens: a run of brace-free prose, a brace,
\* a comma, or a "key": value pair.
Prose == [t |-> "prose", k |-> "", v |-> Null]
LBrace == [t |-> "{", k |-> "", v |-> Null]
RBrace == [t |-> "}", k |-> "", v |-> Null]
Comma == [t |-> ",", k |-> "", v |-> Null]
Pair(k, v) == [t |-> "pair", k |-> k, v |-> v]

\* Strings float() accepts, with their value.
NumericStrings == [s \in {"1.5"} |-> 15]

(***************************************************************************)
(* LLMService._parse_response                                              *)
(***************************************************************************)
Max(S) == CHOOSE x \in S : \A y \in S : y <= x
Min(S) == CHOOSE x \in S : \A y \in S : x <= y

\* re.search(r'\{.*\}', response, re.DOTALL).group(): the leftmost "{" that has
\* a "}" after it, up to the last "}" of the text (".*" is greedy and DOTALL
\* lets it cross line ends); <<>> when there is no match.
re_search(text) ==
    LET lb == {i \in 1..Len(text) : text[i].t = "{"}
        rb == {i \in 1..Len(text) : text[i].t = "}"}
    IN  IF lb # {} /\ rb # {} /\ Min(lb) < Max(rb)
        THEN SubSeq(text, Min(lb), Max(rb))
        ELSE <<>>

\* json.loads of a span that starts with "{" and ends with "}": it decodes when
\* the inside is empty or pairs separated by single commas, and then yields the
\* dict of the pairs, the last value of a repeated key winning.
json_loads(span) ==
    LET inner == SubSeq(span, 2, Len(span) - 1)
        wellFormed ==
            \/ inner = <<>>
            \/ /\ Len(inner) % 2 = 1
               /\ \A i \in 1..Len(inner) :
                     inner[i].t = (IF i % 2 = 1 THEN "pair" ELSE ",")
        keys == {inner[i].k : i \in {j \in 1..Len(inner) : inner[j].t = "pair"}}
        last(k) == Max({i \in 1..Len(inner) : inner[i].t = "pair" /\ inner[i].k = k})
    IN  IF wellFormed
        THEN [ok |-> TRUE, obj |-> [k \in keys |-> inner[last(k)].v]]
        ELSE [ok |-> FALSE, obj |-> <<>>]

\* A variant of dict.get that finds no key.
GetNothing(obj, key, default) == default

\* dict.get(key, default)
Get(obj, key, default) == IF key \in DOMAIN obj THEN obj[key] ELSE default

\* float(v): a number converts, a string converts when it spells a number and
\* raises ValueError otherwise, None and a list raise TypeError.
Float(v) ==
    CASE v.t = "num" -> [exc |-> "none", val |-> v.n]
      [] v.t = "str" -> IF v.s \in DOMAIN NumericStrings
                        THEN [exc |-> "none", val |-> NumericStrings[v.s]]
                        ELSE [exc |-> "ValueError", val |-> 0]
      [] OTHER -> [exc |-> "TypeError", val |-> 0]

\* The dict of lines 131-139.
DefaultRecommendation ==
    [recommendation |-> Str("baochi"), reason |-> Str("fenxi_wancheng"),
     action |-> Str("baochi"), predicted_price |-> 0, predicted_buy_price |-> 0,
     predicted_sell_price |-> 0, confidence |-> 5]

Returned(rec) == [exc |-> "none", value |-> rec]
Raised(e) == [exc |-> e, value |-> DefaultRecommendation]

\* A variant of line 126 with the confidence of line 138.
MissingConfidenceAsDefault == Num(5)

\* The default confidence of line 126.
MissingConfidence == Num(-5)

\* Lines 119-127: the dict built from the decoded object. Its values are
\* evaluated in order, so the first float() that raises decides the exception.
BuildRecommendation(result) ==
    LET price == Float(Get(result, "yuce_jiage", Get(result, "yuce_jiage_T1", Num(0))))
        buy == Float(Get(result, "yuce_mairu_jiage",
                         Get(result, "yuce_mairu_jiage_T1", Num(0))))
        sell == Float(Get(result, "yuce_maichu_jiage",
                          Get(result, "yuce_maichu_jiage_T1", Num(0))))
        conf == Float(Get(result, "yuce_xinxin", MissingConfidence))
        coerced == <<price, buy, sell, conf>>
        bad == {i \in 1..4 : coerced[i].exc # "none"}
    IN  IF bad # {}
        THEN Raised(coerced[Min(bad)].exc)
        ELSE Returned([recommendation |-> Get(result, "jianyi", Str("baochi")),
                       reason |-> Get(result, "tuijian_yuanyin", Str("fenxi_wancheng")),
                       action |-> Get(result, "dongzuo", Str("baochi")),
                       predicted_price |-> price.val,
                       predicted_buy_price |-> buy.val,
                       predicted_sell_price |-> sell.val,
                       confidence |-> conf.val])

\* The exceptions the except clause of line 128 catches (json.JSONDecodeError
\* is a ValueError).
ParseCaught == {"ValueError"}

\* A variant of _parse_response that lets a failure to find or decode the
\* object out as an exception.
_parse_response_raising(text) ==
    LET json_match == re_search(text)
    IN  IF json_match = <<>> \/ ~json_loads(json_match).ok
        THEN Raised("JSONDecodeError")
        ELSE BuildRecommendation(json_loads(json_match).obj)

\* _parse_response, lines 110-139.
_parse_response(text) ==
    LET json_match == re_search(text)
    IN  IF json_match = <<>>
        THEN Returned(DefaultRecommendation)
        ELSE LET decoded == json_loads(json_match)
             IN  IF ~decoded.ok
                 THEN Returned(DefaultRecommendation)
                 ELSE LET built == BuildRecommendation(decoded.obj)
                      IN  IF built.exc = "none" THEN built
                          ELSE IF built.exc \in ParseCaught
                          THEN Returned(DefaultRecommendation)
                          ELSE built

(***************************************************************************)
(* Response texts the parser is run on                                     *)
(***************************************************************************)
\* Longest object body (pairs, commas, stray prose between the braces).
MaxBody == 3

Pairs ==
    { Pair("jianyi", Str("mairu")),
      Pair("dongzuo", Str("mai")),
      Pair("yuce_xinxin", Num(8)),
      Pair("yuce_xinxin", List),
      Pair("yuce_jiage", Num(105)),
      Pair("yuce_jiage", Str("abc")),
      Pair("yuce_jiage", Null),
      Pair("yuce_jiage_T1", Num(110)),
      Pair("yuce_mairu_jiage", Str("1.5")),
      Pair("confidence", Num(9)) }

SeqsUpTo(S, n) == UNION {[1..m -> S] : m \in 0..n}

Bodies == SeqsUpTo(Pairs \cup {Comma, Prose}, MaxBody)
Pads == SeqsUpTo({Prose, LBrace, RBrace}, 1)

\* Text around at most one braced body; with no body the pads alone.
Texts ==
    {pre \o suf : pre \in Pads, suf \in Pads}
    \cup {pre \o <<LBrace>> \o body \o <<RBrace>> \o suf :
             pre \in Pads, body \in Bodies, suf \in Pads}

NotRun == [exc |-> "not run", value |-> DefaultRecommendation]

ParseInit == response \in Texts /\ parsed = NotRun

\* The parser is not run on its own.
ParseIdle == response = <<>> /\ parsed = NotRun

ParseResponse ==
    /\ parsed = NotRun
    /\ parsed' = _parse_response(response)
    /\ UNCHANGED <<response, clockVars, llm_cache, callVars, batchVars>>

(***************************************************************************)
(* The cache and the clock                                                 *)
(***************************************************************************)
\* CACHE_EXPIRY = 24 * 60 * 60 seconds, in hours.
CACHE_EXPIRY == 24
HoursPerDay == 24

Codes == {"600000", "000001"}
Modes == {"single", "multi"}
CurrentPrices == {105}

\* time.strftime("%Y-%m-%d"): the local calendar date, as a day number.
LocalDate(t, d) == (t + (IF d THEN 1 ELSE 0)) \div HoursPerDay
current_date == LocalDate(now, dst)

\* f"{code}_{current_date}_single" and f"{code}_{current_date}_multi"
CacheKey(code, date, m) == <<code, date, m>>

\* A variant of the expiry test that drops an entry one hour early.
NotExpiredEarly(t, timestamp) == t - timestamp < CACHE_EXPIRY - 1

\* time.time() - timestamp < CACHE_EXPIRY
NotExpired(t, timestamp) == t - timestamp < CACHE_EXPIRY

\* Lines 35-39 (194-198): the cached result to return; none when the key is
\* absent or its entry expired.
CacheLookup(cache, key, t) ==
    IF key \in DOMAIN cache /\ NotExpired(t, cache[key].timestamp)
    THEN {cache[key].result}
    ELSE {}

\* A variant of the store that drops the entries past the expiry window.
CacheStoreEvicting(cache, key, result, t) ==
    [k \in {j \in DOMAIN cache : NotExpired(t, cache[j].timestamp)} \cup {key} |->
        IF k = key THEN [result |-> result, timestamp |-> t] ELSE cache[k]]

\* llm_cache[cache_key] = (result, time.time())
CacheStore(cache, key, result, t) ==
    [k \in DOMAIN cache \cup {key} |->
        IF k = key THEN [result |-> result, timestamp |-> t] ELSE cache[k]]

(***************************************************************************)
(* The language-model backend                                              *)
(***************************************************************************)
BuyReply ==
    <<Prose, LBrace, Pair("jianyi", Str("mairu")), Comma,
      Pair("yuce_xinxin", Num(8)), RBrace, Prose>>

\* A reply under exactly the field names the prompt of _build_analysis_prompt
\* asks for (lines 97-104).
EnglishReply ==
    <<LBrace, Pair("recommendation", Str("mairu")), Comma,
      Pair("reason", Str("liyou")), Comma,
      Pair("action", Str("mai")), Comma,
      Pair("predicted_price", Num(105)), Comma,
      Pair("predicted_buy_price", Num(100)), Comma,
      Pair("predicted_sell_price", Num(110)), Comma,
      Pair("confidence", Num(9)), RBrace>>

\* Replies to a prompt that asks for JSON: prose only, the reply above under
\* the Chinese names, an object with a null price, the reply under the
\* prompt's own field names.
ReplyTexts ==
    { <<Prose>>, BuyReply,
      <<LBrace, Pair("yuce_jiage", Null), RBrace>>,
      EnglishReply }

\* self.llm.invoke(...): a reply, or an exception.
Replied(text) == [ok |-> TRUE, text |-> text]
BackendError == [ok |-> FALSE, text |-> <<>>]
JsonOutcomes == {Replied(t) : t \in ReplyTexts} \cup {BackendError}
ReportOutcomes == {Replied(<<Prose>>), BackendError}

(***************************************************************************)
(* Results of an analyzer call                                             *)
(***************************************************************************)
NoReturn == [kind |-> "none", value |-> DefaultRecommendation, exc |-> ""]
ReturnValue(rec) == [kind |-> "value", value |-> rec, exc |-> ""]
RaiseExc(e) == [kind |-> "raised", value |-> DefaultRecommendation, exc |-> e]

\* The dict of lines 58-66.
SafeHold(sd) ==
    [recommendation |-> Str("baochi"), reason |-> Str("fenxi_cuowu"),
     action |-> Str("baochi"), predicted_price |-> sd.current_price,
     predicted_buy_price |-> sd.current_price,
     predicted_sell_price |-> sd.current_price, confidence |-> 5]

\* MessageState as analyze builds it (lines 201-207): fundamental_analyst is
\* "", the other text fields are not set (the keyword technical_analysis_node
\* is no field any node reads).
Unset == "<unset>"
Report == "report"
InitialState ==
    [fundamental_analyst |-> "", technical_analysis |-> Unset,
     trader_analysis |-> Unset, final_recommendation |-> NotRun]

NoCalls == [stage |-> 0, single |-> 0]
NoKey == <<"", 0, "">>
NoStock == [code |-> "", current_price |-> 0]

(***************************************************************************)
(* LLMService.analyze_stock and MultiRoleAnalyzer.analyze, one call at a   *)
(* time, the clock running while a language-model call is pending          *)
(***************************************************************************)
\* Analyzer calls in one run, and clock steps in one run.
MaxCalls == 2
MaxTicks == 2

Strides == {1, HoursPerDay - 1}

NoFallback == [cache |-> <<>>, time |-> 0, date |-> 0, backend |-> BackendError]

\* log: what the claims need of the past.
\*   issued, date  time.time() and the local date when the call was issued
\*   entries       the llm_cache entries of the call's code and mode when it
\*                 was issued, each with the date of its key
\*   failed_stage  the node of the graph that raised (0: none)
\*   fb            at the entry of the fallback analyze_stock: llm_cache, the
\*                 clock, the date, and later the backend's answer to it
\*   ticks         clock steps so far
InitialLog ==
    [issued |-> 0, date |-> 0, entries |-> {}, failed_stage |-> 0,
     fb |-> NoFallback, ticks |-> 0]

EntriesOf(cache, code, m) ==
    {[date |-> k[2], timestamp |-> cache[k].timestamp, result |-> cache[k].result] :
        k \in {j \in DOMAIN cache : j[1] = code /\ j[3] = m}}

AnalyzeInit ==
    /\ now = HoursPerDay - 1
    /\ dst = TRUE
    /\ llm_cache = <<>>
    /\ pc = "idle"
    /\ mode = "single"
    /\ stock_data = NoStock
    /\ history_ok = TRUE
    /\ state = InitialState
    /\ in_fallback = FALSE
    /\ cache_key = NoKey
    /\ llm_calls = NoCalls
    /\ ret = NoReturn
    /\ ncalls = 0
    /\ log = InitialLog

\* analyze_stock, lines 29-41: the key, the lookup, and on a miss the prompt,
\* whose round(d['close'], 2) raises on a bar with close = None. The exception
\* leaves analyze_stock: line 41 is outside the try of line 43.
AnalyzeStockEnter(sd, hok) ==
    LET key == CacheKey(sd.code, current_date, "single")
        hit == CacheLookup(llm_cache, key, now)
    IN  /\ cache_key' = key
        /\ IF hit # {}
           THEN /\ ret' = ReturnValue(CHOOSE r \in hit : TRUE)
                /\ pc' = "done"
           ELSE IF ~hok
           THEN /\ ret' = RaiseExc("TypeError")
                /\ pc' = "done"
           ELSE /\ ret' = NoReturn
                /\ pc' = "single_invoke"

BeginLog(m, sd) ==
    [log EXCEPT !.issued = now, !.date = current_date,
                !.entries = EntriesOf(llm_cache, sd.code, m),
                !.failed_stage = 0, !.fb = NoFallback]

\* A caller invokes LLMService.analyze_stock.
AnalyzeStock(sd, hok) ==
    /\ pc = "idle"
    /\ ncalls < MaxCalls
    /\ ncalls' = ncalls + 1
    /\ mode' = "single"
    /\ stock_data' = sd
    /\ history_ok' = hok
    /\ in_fallback' = FALSE
    /\ llm_calls' = NoCalls
    /\ state' = InitialState
    /\ log' = BeginLog("single", sd)
    /\ AnalyzeStockEnter(sd, hok)
    /\ UNCHANGED <<now, dst, llm_cache>>
    /\ UNCHANGED <<parseVars, batchVars>>

\* A variant of lines 43-66 whose except branch stores the safe-hold dict.
AnalyzeStockInvokeStoresSafeHold ==
    /\ pc = "single_invoke"
    /\ \E b \in JsonOutcomes :
         LET p == _parse_response(b.text)
             result == IF b.ok /\ p.exc = "none" THEN p.value ELSE SafeHold(stock_data)
         IN  /\ llm_calls' = [llm_calls EXCEPT !.single = @ + 1]
             /\ llm_cache' = CacheStore(llm_cache, cache_key, result, now)
             /\ ret' = ReturnValue(result)
             /\ log' = [log EXCEPT !.fb.backend = b]
    /\ pc' = "done"
    /\ UNCHANGED <<now, dst, mode, stock_data, history_ok, state, in_fallback,
                   cache_key, ncalls>>
    /\ UNCHANGED <<parseVars, batchVars>>

\* analyze_stock, lines 43-66: the language-model call, the parser, the store;
\* except Exception turns a backend error and an exception of the parser
\* into the safe-hold dict, which is not stored.
AnalyzeStockInvoke ==
    /\ pc = "single_invoke"
    /\ \E b \in JsonOutcomes :
         LET p == _parse_response(b.text)
         IN  /\ llm_calls' = [llm_calls EXCEPT !.single = @ + 1]
             /\ IF b.ok /\ p.exc = "none"
                THEN /\ llm_cache' = CacheStore(llm_cache, cache_key, p.value, now)
                     /\ ret' = ReturnValue(p.value)
                     /\ log' = [log EXCEPT !.fb.backend = b]
                ELSE /\ llm_cache' = llm_cache
                     /\ ret' = ReturnValue(SafeHold(stock_data))
                     /\ log' = [log EXCEPT !.fb.backend = b]
    /\ pc' = "done"
    /\ UNCHANGED <<now, dst, mode, stock_data, history_ok, state, in_fallback,
                   cache_key, ncalls>>
    /\ UNCHANGED <<parseVars, batchVars>>

\* A caller invokes MultiRoleAnalyzer.analyze: lines 188-207, the key, the
\* lookup, and on a miss the graph is started at its entry point.
Analyze(sd, hok) ==
    LET key == CacheKey(sd.code, current_date, "multi")
        hit == CacheLookup(llm_cache, key, now)
    IN  /\ pc = "idle"
        /\ ncalls < MaxCalls
        /\ ncalls' = ncalls + 1
        /\ mode' = "multi"
        /\ stock_data' = sd
        /\ history_ok' = hok
        /\ in_fallback' = FALSE
        /\ llm_calls' = NoCalls
        /\ state' = InitialState
        /\ cache_key' = key
        /\ log' = BeginLog("multi", sd)
        /\ IF hit # {}
           THEN /\ ret' = ReturnValue(CHOOSE r \in hit : TRUE)
                /\ pc' = "done"
           ELSE /\ ret' = NoReturn
                /\ pc' = "fundamental"
        /\ UNCHANGED <<now, dst, llm_cache>>
        /\ UNCHANGED <<parseVars, batchVars>>

\* A node that raised: graph.invoke raises, analyze goes to line 215.
NodeRaises(k) ==
    /\ pc' = "except"
    /\ log' = [log EXCEPT !.failed_stage = k]
    /\ state' = state

NodeFrame == UNCHANGED <<now, dst, llm_cache, mode, stock_data, history_ok,
                         in_fallback, cache_key, ret, ncalls>>

\* A variant of the graph whose edge from fundamental_analyst leads to
\* trader_analyst.
FundamentalNodeEdgeToTrader ==
    /\ pc = "fundamental"
    /\ llm_calls' = [llm_calls EXCEPT !.stage = @ + 1]
    /\ \E b \in ReportOutcomes :
         IF b.ok
         THEN /\ state' = [state EXCEPT !.fundamental_analyst = Report]
              /\ pc' = "trader"
              /\ log' = log
         ELSE NodeRaises(1)
    /\ NodeFrame
    /\ UNCHANGED <<parseVars, batchVars>>

\* fundamental_analysis_node, lines 43-73.
FundamentalNode ==
    /\ pc = "fundamental"
    /\ llm_calls' = [llm_calls EXCEPT !.stage = @ + 1]
    /\ \E b \in ReportOutcomes :
         IF b.ok
         THEN /\ state' = [state EXCEPT !.fundamental_analyst = Report]
              /\ pc' = "technical"
              /\ log' = log
         ELSE NodeRaises(1)
    /\ NodeFrame
    /\ UNCHANGED <<parseVars, batchVars>>

\* technical_analysis_node, lines 75-114. The history bars are formatted, not
\* rounded: a bar with close = None does not raise here.
TechnicalNode ==
    /\ pc = "technical"
    /\ llm_calls' = [llm_calls EXCEPT !.stage = @ + 1]
    /\ \E b \in ReportOutcomes :
         IF b.ok
         THEN /\ state' = [state EXCEPT !.technical_analysis = Report]
              /\ pc' = "trader"
              /\ log' = log
         ELSE NodeRaises(2)
    /\ NodeFrame
    /\ UNCHANGED <<parseVars, batchVars>>

\* trader_analysis_node, lines 116-144: state['fundamental_analyst'] and
\* state['technical_analysis'] are read (KeyError when not set) before the call.
TraderNode ==
    /\ pc = "trader"
    /\ IF Unset \in {state.fundamental_analyst, state.technical_analysis}
       THEN /\ NodeRaises(3)
            /\ llm_calls' = llm_calls
       ELSE /\ llm_calls' = [llm_calls EXCEPT !.stage = @ + 1]
            /\ \E b \in ReportOutcomes :
                 IF b.ok
                 THEN /\ state' = [state EXCEPT !.trader_analysis = Report]
                      /\ pc' = "final"
                      /\ log' = log
                 ELSE NodeRaises(3)
    /\ NodeFrame
    /\ UNCHANGED <<parseVars, batchVars>>

\* final_decision_node, lines 146-181: the three texts are read, the reply is
\* parsed; an exception of the parser leaves the node.
FinalDecisionNode ==
    /\ pc = "final"
    /\ IF Unset \in {state.fundamental_analyst, state.technical_analysis,
                     state.trader_analysis}
       THEN /\ NodeRaises(4)
            /\ llm_calls' = llm_calls
       ELSE /\ llm_calls' = [llm_calls EXCEPT !.stage = @ + 1]
            /\ \E b \in JsonOutcomes :
                 LET final_result == _parse_response(b.text)
                 IN  IF b.ok /\ final_result.exc = "none"
                     THEN /\ state' = [state EXCEPT !.final_recommendation = final_result]
                          /\ pc' = "store"
                          /\ log' = log
                     ELSE NodeRaises(4)
    /\ NodeFrame
    /\ UNCHANGED <<parseVars, batchVars>>

\* analyze, lines 210-214: the graph returned; store and return its
\* final_recommendation.
AnalyzeStore ==
    /\ pc = "store"
    /\ LET final_result == state.final_recommendation.value
       IN  /\ llm_cache' = CacheStore(llm_cache, cache_key, final_result, now)
           /\ ret' = ReturnValue(final_result)
    /\ pc' = "done"
    /\ UNCHANGED <<now, dst, mode, stock_data, history_ok, state, in_fallback,
                   cache_key, llm_calls, ncalls, log>>
    /\ UNCHANGED <<parseVars, batchVars>>

\* A variant of the except branch that returns what the graph had built: the
\* default recommendation with the fundamental text as its reason.
AnalyzeExceptPartial ==
    /\ pc = "except"
    /\ in_fallback' = TRUE
    /\ log' = [log EXCEPT !.fb = [cache |-> llm_cache, time |-> now,
                                  date |-> current_date, backend |-> BackendError]]
    /\ ret' = ReturnValue([DefaultRecommendation EXCEPT
                              !.reason = Str(state.fundamental_analyst)])
    /\ pc' = "done"
    /\ UNCHANGED <<now, dst, llm_cache, mode, stock_data, history_ok, state,
                   cache_key, llm_calls, ncalls>>
    /\ UNCHANGED <<parseVars, batchVars>>

\* A variant of the except branch that puts a safe-hold under the staged key
\* before it falls back.
AnalyzeExceptStoresStaged ==
    /\ pc = "except"
    /\ in_fallback' = TRUE
    /\ log' = [log EXCEPT !.fb = [cache |-> llm_cache, time |-> now,
                                  date |-> current_date, backend |-> BackendError]]
    /\ llm_cache' = CacheStore(llm_cache, cache_key, SafeHold(stock_data), now)
    /\ AnalyzeStockEnter(stock_data, history_ok)
    /\ UNCHANGED <<now, dst, mode, stock_data, history_ok, state, llm_calls, ncalls>>
    /\ UNCHANGED <<parseVars, batchVars>>

\* analyze, lines 215-217: return self.llm_service.analyze_stock(...) on the
\* same three arguments.
AnalyzeExcept ==
    /\ pc = "except"
    /\ in_fallback' = TRUE
    /\ log' = [log EXCEPT !.fb = [cache |-> llm_cache, time |-> now,
                                  date |-> current_date, backend |-> BackendError]]
    /\ AnalyzeStockEnter(stock_data, history_ok)
    /\ UNCHANGED <<now, dst, llm_cache, mode, stock_data, history_ok, state,
                   llm_calls, ncalls>>
    /\ UNCHANGED <<parseVars, batchVars>>

\* The caller has the result and the call's frame is gone; the next call can
\* be issued.
Return ==
    /\ pc = "done"
    /\ pc' = "idle"
    /\ mode' = "single"
    /\ stock_data' = NoStock
    /\ history_ok' = TRUE
    /\ state' = InitialState
    /\ in_fallback' = FALSE
    /\ cache_key' = NoKey
    /\ llm_calls' = NoCalls
    /\ ret' = NoReturn
    /\ log' = [InitialLog EXCEPT !.ticks = log.ticks]
    /\ UNCHANGED <<now, dst, llm_cache, ncalls>>
    /\ UNCHANGED <<parseVars, batchVars>>

\* Time passes between calls and while language-model calls are pending. The
\* clock is read at the lookup and at the store only, so the time the graph
\* takes is let pass at its entry point.
Waiting == {"idle", "fundamental", "single_invoke"}

Tick ==
    /\ pc \in Waiting
    /\ log.ticks < MaxTicks
    /\ \E d \in Strides : now' = now + d
    /\ log' = [log EXCEPT !.ticks = @ + 1]
    /\ UNCHANGED <<dst, llm_cache, pc, mode, stock_data, history_ok, state,
                   in_fallback, cache_key, llm_calls, ret, ncalls>>
    /\ UNCHANGED <<parseVars, batchVars>>

\* Daylight saving time ends: the local clock is set back one hour.
DSTEnd ==
    /\ pc \in Waiting
    /\ dst
    /\ dst' = FALSE
    /\ UNCHANGED <<now, llm_cache, pc, mode, stock_data, history_ok, state,
                   in_fallback, cache_key, llm_calls, ret, ncalls, log>>
    /\ UNCHANGED <<parseVars, batchVars>>

\* The analyzers are called on one stock; the batch below brings the others.
Snapshots == [code : {"600000"}, current_price : CurrentPrices]

(***************************************************************************)
(* The analyzers as functions of the cache, the clock, their arguments and *)
(* the backend's answers: what a whole call returns and leaves behind      *)
(***************************************************************************)
Outcome(r, cache, n) == [ret |-> r, cache |-> cache, calls |-> n]

\* analyze_stock, lines 43-66, b the backend's answer to the invoke.
analyze_stock_invoke(cache, t, key, sd, b) ==
    LET p == _parse_response(b.text)
    IN  IF b.ok /\ p.exc = "none"
        THEN Outcome(ReturnValue(p.value), CacheStore(cache, key, p.value, t), 1)
        ELSE Outcome(ReturnValue(SafeHold(sd)), cache, 1)

\* analyze_stock, lines 24-66.
analyze_stock(cache, t, date, sd, hok, b) ==
    LET key == CacheKey(sd.code, date, "single")
        hit == CacheLookup(cache, key, t)
    IN  IF hit # {} THEN Outcome(ReturnValue(CHOOSE r \in hit : TRUE), cache, 0)
        ELSE IF ~hok THEN Outcome(RaiseExc("TypeError"), cache, 0)
        ELSE analyze_stock_invoke(cache, t, key, sd, b)

\* How the graph of a call that missed the cache can go: the node that raises
\* on its language-model call (0: none), the answer to the final node and the
\* answer to the fallback analyze_stock.
GraphRuns == [fail : 0..3, final : JsonOutcomes, single : JsonOutcomes]

\* analyze, lines 200-217, after a miss of the "multi" key.
analyze_miss(cache, t, date, sd, hok, run) ==
    LET key == CacheKey(sd.code, date, "multi")
        p == _parse_response(run.final.text)
        fb == analyze_stock(cache, t, date, sd, hok, run.single)
    IN  IF run.fail # 0
        THEN Outcome(fb.ret, fb.cache, run.fail + fb.calls)
        ELSE IF run.final.ok /\ p.exc = "none"
        THEN Outcome(ReturnValue(p.value), CacheStore(cache, key, p.value, t), 4)
        ELSE Outcome(fb.ret, fb.cache, 4 + fb.calls)

(***************************************************************************)
(* StockAnalysisSystem.save_results and the output file                    *)
(***************************************************************************)
\* The file is a sequence of tokens: "[", "]", ",", a line end, or the JSON
\* text of one result record.
NoRecord == [code |-> "", name |-> "", error |-> ""]
Tok(c) == [t |-> c, r |-> NoRecord]
RecTok(r) == [t |-> "rec", r |-> r]
NoFile == [exists |-> FALSE, content |-> <<>>]
File(content) == [exists |-> TRUE, content |-> content]

\* str.strip() of the file's text: line ends at both ends removed.
RECURSIVE Strip(_)
Strip(content) ==
    IF content = <<>> THEN <<>>
    ELSE IF Head(content).t = "nl" THEN Strip(Tail(content))
    ELSE IF content[Len(content)].t = "nl"
    THEN Strip(SubSeq(content, 1, Len(content) - 1))
    ELSE content

\* Lines 247-254: every record, ",\n" after each but the last.
RECURSIVE DumpEach(_)
DumpEach(recs) ==
    IF recs = <<>> THEN <<>>
    ELSE IF Len(recs) = 1 THEN <<RecTok(recs[1])>>
    ELSE <<RecTok(recs[1]), Tok(","), Tok("nl")>> \o DumpEach(Tail(recs))

\* A variant of lines 226-244 that never writes the comma.
OpenArrayNoComma(file, append) ==
    IF ~file.exists \/ ~append THEN <<Tok("["), Tok("nl")>>
    ELSE IF Strip(file.content) = <<>> THEN <<Tok("["), Tok("nl")>>
    ELSE file.content

\* Lines 226-244: what the file holds before the records are appended.
OpenArray(file, append) ==
    IF ~file.exists \/ ~append
    THEN <<Tok("["), Tok("nl")>>
    ELSE LET content == Strip(file.content)
         IN  IF content = <<>> THEN <<Tok("["), Tok("nl")>>
             ELSE IF content[Len(content)].t # "["
             THEN file.content \o <<Tok(","), Tok("nl")>>
             ELSE file.content

\* save_results(results, filename, batch_size, append), lines 205-256;
\* batch_size 0 is None: json.dump of the whole list.
save_results(file, recs, batch_size, append) ==
    IF recs = <<>> THEN file
    ELSE IF batch_size = 0
    THEN File(<<Tok("[")>> \o DumpEach(recs) \o <<Tok("]")>>)
    ELSE File(OpenArray(file, append) \o DumpEach(recs))

\* Lines 176-181: "\n]" appended when the file exists.
CloseArray(file) ==
    IF file.exists THEN File(file.content \o <<Tok("nl"), Tok("]")>>) ELSE file

(***************************************************************************)
(* StockAnalysisSystem.analyze_multiple_stocks                             *)
(***************************************************************************)
\* Largest save_batch_size, and the pool's max_workers.
MaxBatchSize == 2
MaxWorkers == 2

\* The stock_codes lists of a run.
StockCodeLists ==
    { <<>>, <<"600000">>, <<"600000", "000001">>, <<"600000", "600000">>,
      <<"600000", "000001", "600000">> }

Range(f) == {f[i] : i \in DOMAIN f}

\* A row of stock_info: full_code is "None" when the column is NULL.
Profile(code, full) == [name |-> code, full_code |-> IF full THEN code ELSE "None"]
ProfilesOf(code) == {Profile(code, TRUE), Profile(code, FALSE)}

\* What get_batch_stock_info can return for the codes: the rows found, by code.
BatchStockInfos(codes) ==
    UNION { {f \in [found -> UNION {ProfilesOf(c) : c \in found}] :
                \A c \in found : f[c] \in ProfilesOf(c)} :
            found \in SUBSET Range(codes) }

\* Line 92: the full codes of the rows that have one.
FullCodes(infos) ==
    {infos[c].full_code : c \in {d \in DOMAIN infos : infos[d].full_code # "None"}}

\* The snapshot get_real_time_data returns for a full code.
Snapshot(full_code) == [code |-> full_code, current_price |-> 105]

NoFetches == [info |-> 0, quotes |-> 0, requests |-> 0, history |-> 0]

\* A variant of the error dict that also carries a recommendation.
ErrorRecordWithRecommendation(code, name, error) ==
    [code |-> code, name |-> name, error |-> error, recommendation |-> Str("baochi")]

\* Lines 107-111, 118-122, 149-153.
ErrorRecord(code, name, error) == [code |-> code, name |-> name, error |-> error]

\* Lines 133-146.
FullRecord(code, info, sd, rec, t) ==
    [code |-> code, name |-> info.name, analysis_date |-> t,
     current_price |-> sd.current_price, change_percent |-> 0,
     recommendation |-> rec.recommendation, reason |-> rec.reason,
     action |-> rec.action, predicted_price |-> rec.predicted_price,
     predicted_buy_price |-> rec.predicted_buy_price,
     predicted_sell_price |-> rec.predicted_sell_price,
     confidence |-> rec.confidence]

\* Lines 133-153: the record made of what the analyzer returned or raised.
RecordOf(code, info, sd, r, t) ==
    IF r.kind = "raised" THEN ErrorRecord(code, "weizhi", r.exc)
    ELSE FullRecord(code, info, sd, r.value, t)

\* A task of the pool: its code, where it is, its record, the language-model
\* calls it made, and whether a reply it handed to _parse_response held no
\* JSON object or a span that does not decode.
QueuedTask(code) ==
    [code |-> code, pc |-> "queued", result |-> NoRecord, calls |-> 0,
     unparseable |-> FALSE]
DoneTask(task, record, n) == [task EXCEPT !.pc = "done", !.result = record, !.calls = n]

\* A variant that submits a task only for a code that has a profile.
SubmittedWithProfile(codes, infos) ==
    LET found == SelectSeq(codes, LAMBDA c : c \in DOMAIN infos)
    IN  [i \in DOMAIN found |-> QueuedTask(found[i])]

\* executor.map(analyze_stock, stock_codes), line 160: one task per element.
Submitted(codes, infos) == [i \in DOMAIN codes |-> QueuedTask(codes[i])]

\* A variant that yields results as tasks complete (as_completed).
YieldsAsCompleted(res, fin) == IF Len(fin) > Len(res) THEN fin[Len(res) + 1] ELSE 0

\* The task whose result executor.map yields next: the next in the order of
\* stock_codes.
Yields(res, fin) == Len(res) + 1

\* A variant that flushes one record late.
FlushDueLate(size, file_given, temp) == size # 0 /\ file_given /\ Len(temp) > size

\* Line 166: save_batch_size and output_file and len(temp_results) >= size
FlushDue(size, file_given, temp) == size # 0 /\ file_given /\ Len(temp) >= size

\* The backend's answers during a batch, and the runs of the graph: a graph
\* that fails does so at its last node (the node that fails changes the count
\* of language-model calls only). The replies are prose without an object, a
\* span in braces that does not decode, and the reply that recommends buying.
BatchOutcomes ==
    {Replied(<<Prose>>), Replied(<<LBrace, Prose, RBrace>>), Replied(BuyReply),
     BackendError}
BatchRuns == [fail : {0}, final : BatchOutcomes, single : BatchOutcomes]

\* No batch is run.
BatchIdle ==
    /\ stock_codes = <<>>
    /\ save_batch_size = 0
    /\ output_file = FALSE
    /\ use_multi_role = FALSE
    /\ bpc = "idle"
    /\ stock_infos = <<>>
    /\ real_time_data_dict = <<>>
    /\ history_data_dict = <<>>
    /\ fetches = NoFetches
    /\ tasks = <<>>
    /\ finished = <<>>
    /\ results = <<>>
    /\ temp_results = <<>>
    /\ sink = NoFile
    /\ sink0 = NoFile

\* What the output file can hold before a run: it does not exist, it is empty,
\* or it holds the array an earlier run closed.
EarlierRecord == [code |-> "300001", name |-> "weizhi", error |-> "no profile"]
InitialSinks ==
    { NoFile, File(<<>>),
      File(<<Tok("["), Tok("nl"), RecTok(EarlierRecord), Tok("nl"), Tok("]")>>) }

\* analyze_multiple_stocks is called. The file matters to the run only when
\* both save_batch_size and output_file are given.
BatchInit ==
    /\ stock_codes \in StockCodeLists
    /\ save_batch_size \in 0..MaxBatchSize
    /\ output_file \in BOOLEAN
    /\ use_multi_role \in BOOLEAN
    /\ bpc = "get_infos"
    /\ stock_infos = <<>>
    /\ real_time_data_dict = <<>>
    /\ history_data_dict = <<>>
    /\ fetches = NoFetches
    /\ tasks = <<>>
    /\ finished = <<>>
    /\ results = <<>>
    /\ temp_results = <<>>
    /\ sink \in IF save_batch_size # 0 /\ output_file THEN InitialSinks ELSE {NoFile}
    /\ sink0 = sink

BatchFrame == UNCHANGED <<parseVars, clockVars, callVars, stock_codes,
                          save_batch_size, output_file, use_multi_role, sink0>>

\* Lines 87-92: self.db.get_batch_stock_info(stock_codes).
GetBatchStockInfo ==
    /\ bpc = "get_infos"
    /\ \E infos \in BatchStockInfos(stock_codes) : stock_infos' = infos
    /\ fetches' = [fetches EXCEPT !.info = @ + 1]
    /\ bpc' = "get_quotes"
    /\ UNCHANGED <<llm_cache, real_time_data_dict, history_data_dict, tasks,
                   finished, results, temp_results, sink>>
    /\ BatchFrame

\* A variant in which the bulk fetch lets the failure out when every request
\* failed: analyze_multiple_stocks is left at line 96.
GetMultipleStocksDataPropagates ==
    /\ bpc = "get_quotes"
    /\ \E got \in SUBSET FullCodes(stock_infos) :
         /\ real_time_data_dict' = [fc \in got |-> Snapshot(fc)]
         /\ bpc' = IF got = {} /\ FullCodes(stock_infos) # {}
                   THEN "aborted" ELSE "get_history"
    /\ fetches' = [fetches EXCEPT !.quotes = @ + 1,
                                  !.requests = @ + Cardinality(FullCodes(stock_infos))]
    /\ UNCHANGED <<llm_cache, stock_infos, history_data_dict, tasks, finished,
                   results, temp_results, sink>>
    /\ BatchFrame

\* Lines 94-96 and get_multiple_stocks_data (realtime_stock_data.py 90-100):
\* one call, which requests every full code from the quote source in turn and
\* keeps the snapshots it got; a failed request yields None and is left out.
GetMultipleStocksData ==
    /\ bpc = "get_quotes"
    /\ \E got \in SUBSET FullCodes(stock_infos) :
         real_time_data_dict' = [fc \in got |-> Snapshot(fc)]
    /\ fetches' = [fetches EXCEPT !.quotes = @ + 1,
                                  !.requests = @ + Cardinality(FullCodes(stock_infos))]
    /\ bpc' = "get_history"
    /\ UNCHANGED <<llm_cache, stock_infos, history_data_dict, tasks, finished,
                   results, temp_results, sink>>
    /\ BatchFrame

\* Lines 98-100: self.db.get_batch_stock_history(full_codes, days=30). The
\* rows of a full code are well formed (TRUE) or hold close = None.
GetBatchStockHistory ==
    /\ bpc = "get_history"
    /\ \E h \in [FullCodes(stock_infos) -> BOOLEAN] : history_data_dict' = h
    /\ fetches' = [fetches EXCEPT !.history = @ + 1]
    /\ bpc' = "submit"
    /\ UNCHANGED <<llm_cache, stock_infos, real_time_data_dict, tasks, finished,
                   results, temp_results, sink>>
    /\ BatchFrame

\* Lines 156-160: the pool is made and executor.map submits the tasks.
Submit ==
    /\ bpc = "submit"
    /\ tasks' = Submitted(stock_codes, stock_infos)
    /\ bpc' = "collect"
    /\ UNCHANGED <<llm_cache, stock_infos, real_time_data_dict, history_data_dict,
                   fetches, finished, results, temp_results, sink>>
    /\ BatchFrame

\* A variant of a task that asks the quote source itself.
TaskFrameRefetch ==
    /\ fetches' = [fetches EXCEPT !.quotes = @ + 1]
    /\ UNCHANGED <<bpc, stock_infos, real_time_data_dict, history_data_dict,
                   results, temp_results, sink>>

\* A variant of a task that appends to the output file itself.
TaskFrameWritesSink ==
    /\ sink' = File(sink.content \o <<Tok(",")>>)
    /\ UNCHANGED <<bpc, stock_infos, real_time_data_dict, history_data_dict,
                   fetches, results, temp_results>>

\* What the inner analyze_stock(code), lines 103-153, leaves alone.
TaskFrame == UNCHANGED <<bpc, stock_infos, real_time_data_dict, history_data_dict,
                         fetches, results, temp_results, sink>>

Finish(i, record, n) ==
    /\ tasks' = [tasks EXCEPT ![i] = DoneTask(@, record, n)]
    /\ finished' = Append(finished, i)

\* A worker takes task i from the pool's queue and runs the inner
\* analyze_stock(code), lines 103-131, up to the analyzer's cache lookup and,
\* in analyze_stock, the prompt.
TaskStart(i) ==
    /\ bpc = "collect"
    /\ i \in DOMAIN tasks
    /\ tasks[i].pc = "queued"
    /\ \A j \in 1..(i - 1) : tasks[j].pc # "queued"
    /\ Cardinality({j \in DOMAIN tasks : tasks[j].pc = "analyzing"}) < MaxWorkers
    /\ LET code == tasks[i].code
       IN  IF code \notin DOMAIN stock_infos
           THEN Finish(i, ErrorRecord(code, "weizhi", "no profile"), 0)
           ELSE LET stock_info == stock_infos[code]
                    full_code == stock_info.full_code
                IN  IF full_code \notin DOMAIN real_time_data_dict
                    THEN Finish(i, ErrorRecord(code, stock_info.name, "no quote"), 0)
                    ELSE LET sd == real_time_data_dict[full_code]
                             m == IF use_multi_role THEN "multi" ELSE "single"
                             hit == CacheLookup(llm_cache,
                                                CacheKey(sd.code, current_date, m), now)
                         IN  IF hit # {}
                             THEN Finish(i, FullRecord(code, stock_info, sd,
                                                       CHOOSE r \in hit : TRUE, now), 0)
                             ELSE IF ~use_multi_role /\ ~history_data_dict[full_code]
                             THEN Finish(i, ErrorRecord(code, "weizhi", "TypeError"), 0)
                             ELSE /\ tasks' = [tasks EXCEPT ![i].pc = "analyzing"]
                                  /\ finished' = finished
    /\ UNCHANGED llm_cache
    /\ TaskFrame
    /\ BatchFrame

\* re.search finds no object in the text, or json.loads of the span raises
\* JSONDecodeError (lines 116-118, 128).
Unparseable(text) ==
    re_search(text) = <<>> \/ ~json_loads(re_search(text)).ok

\* The replies a task hands to _parse_response: in analyze_stock the reply to
\* its one call, in analyze the reply to the final node, or after a fallback
\* that called the language model the reply to that call.
ParsedBySingle(o, b) == IF o.calls = 1 /\ b.ok THEN {b.text} ELSE {}
ParsedByMulti(o, run) ==
    (IF run.fail = 0 /\ run.final.ok THEN {run.final.text} ELSE {})
       \cup (IF o.calls = (IF run.fail = 0 THEN 4 ELSE run.fail) + 1 /\ run.single.ok
             THEN {run.single.text} ELSE {})

\* Task i, from the language-model call(s) to the record of lines 133-153.
TaskAnalysis(i) ==
    /\ i \in DOMAIN tasks
    /\ tasks[i].pc = "analyzing"
    /\ LET code == tasks[i].code
           stock_info == stock_infos[code]
           sd == real_time_data_dict[stock_info.full_code]
           hok == history_data_dict[stock_info.full_code]
           answers ==
               IF use_multi_role
               THEN {LET o == analyze_miss(llm_cache, now, current_date, sd, hok, run)
                     IN  [o |-> o, parsed |-> ParsedByMulti(o, run)] :
                        run \in BatchRuns}
               ELSE {LET o == analyze_stock_invoke(llm_cache, now,
                                    CacheKey(sd.code, current_date, "single"), sd, b)
                     IN  [o |-> o, parsed |-> ParsedBySingle(o, b)] :
                        b \in BatchOutcomes}
       IN  \E a \in answers :
             /\ llm_cache' = a.o.cache
             /\ tasks' = [tasks EXCEPT ![i] =
                   [DoneTask(@, RecordOf(code, stock_info, sd, a.o.ret, now), a.o.calls)
                       EXCEPT !.unparseable = \E text \in a.parsed : Unparseable(text)]]
             /\ finished' = Append(finished, i)
    /\ TaskFrame
    /\ BatchFrame

\* Lines 160-168: one turn of the loop over executor.map's results.
CollectNext ==
    /\ bpc = "collect"
    /\ Len(results) < Len(tasks)
    /\ LET i == Yields(results, finished)
       IN  /\ i \in DOMAIN tasks
           /\ tasks[i].pc = "done"
           /\ results' = Append(results, tasks[i].result)
           /\ LET temp == Append(temp_results, tasks[i].result)
              IN  IF FlushDue(save_batch_size, output_file, temp)
                  THEN /\ sink' = save_results(sink, temp, save_batch_size, TRUE)
                       /\ temp_results' = <<>>
                  ELSE /\ sink' = sink
                       /\ temp_results' = temp
    /\ UNCHANGED <<llm_cache, bpc, stock_infos, real_time_data_dict,
                   history_data_dict, fetches, tasks, finished>>
    /\ BatchFrame

\* Lines 170-173: the loop and the pool are left, the remainder is saved.
FlushRemainder ==
    /\ bpc = "collect"
    /\ Len(results) = Len(tasks)
    /\ IF temp_results # <<>> /\ save_batch_size # 0 /\ output_file
       THEN /\ sink' = save_results(sink, temp_results, save_batch_size, TRUE)
            /\ temp_results' = <<>>
       ELSE UNCHANGED <<sink, temp_results>>
    /\ bpc' = "close"
    /\ UNCHANGED <<llm_cache, stock_infos, real_time_data_dict, history_data_dict,
                   fetches, tasks, finished, results>>
    /\ BatchFrame

\* Lines 175-183: the closing bracket, and the return of results.
CloseSink ==
    /\ bpc = "close"
    /\ sink' = IF save_batch_size # 0 /\ output_file THEN CloseArray(sink) ELSE sink
    /\ bpc' = "returned"
    /\ UNCHANGED <<llm_cache, stock_infos, real_time_data_dict, history_data_dict,
                   fetches, tasks, finished, results, temp_results>>
    /\ BatchFrame

(***************************************************************************)
(* Specifications                                                          *)
(***************************************************************************)
InitParse == ParseInit /\ AnalyzeInit /\ BatchIdle
NextParse == ParseResponse
SpecParse == InitParse /\ [][NextParse]_vars

InitAnalyze == ParseIdle /\ AnalyzeInit /\ BatchIdle
NextAnalyze ==
    \/ \E sd \in Snapshots, hok \in BOOLEAN : AnalyzeStock(sd, hok)
    \/ \E sd \in Snapshots, hok \in BOOLEAN : Analyze(sd, hok)
    \/ AnalyzeStockInvoke
    \/ FundamentalNode
    \/ TechnicalNode
    \/ TraderNode
    \/ FinalDecisionNode
    \/ AnalyzeStore
    \/ AnalyzeExcept
    \/ Return
    \/ Tick
    \/ DSTEnd
SpecAnalyze == InitAnalyze /\ [][NextAnalyze]_vars

InitBatch == ParseIdle /\ AnalyzeInit /\ BatchInit
NextBatch ==
    \/ GetBatchStockInfo
    \/ GetMultipleStocksData
    \/ GetBatchStockHistory
    \/ Submit
    \/ \E i \in 1..Len(stock_codes) : TaskStart(i)
    \/ \E i \in 1..Len(stock_codes) : TaskAnalysis(i)
    \/ CollectNext
    \/ FlushRemainder
    \/ CloseSink
SpecBatch == InitBatch /\ [][NextBatch]_vars

\* A variant of the handlers of main that puts the output file back to what
\* it held before the run.
InterruptRollsBack ==
    /\ bpc \in {"get_infos", "get_quotes", "get_history", "submit", "collect", "close"}
    /\ bpc' = "interrupted"
    /\ sink' = sink0
    /\ UNCHANGED <<llm_cache, stock_infos, real_time_data_dict, history_data_dict,
                   fetches, tasks, finished, results, temp_results>>
    /\ BatchFrame

\* main, lines 329-334: a KeyboardInterrupt, or an exception that leaves
\* analyze_multiple_stocks (a write of save_results that fails, for one), is
\* caught and a line is printed; no handler touches the output file. The pool
\* starts no further task; a task that is running ends on its own.
Interrupt ==
    /\ bpc \in {"get_infos", "get_quotes", "get_history", "submit", "collect", "close"}
    /\ bpc' = "interrupted"
    /\ UNCHANGED <<llm_cache, stock_infos, real_time_data_dict, history_data_dict,
                   fetches, tasks, finished, results, temp_results, sink>>
    /\ BatchFrame

\* The batch run, with the interrupts and failures that main catches.
NextBatchInterrupted ==
    \/ GetBatchStockInfo
    \/ GetMultipleStocksData
    \/ GetBatchStockHistory
    \/ Submit
    \/ \E i \in 1..Len(stock_codes) : TaskStart(i)
    \/ \E i \in 1..Len(stock_codes) : TaskAnalysis(i)
    \/ CollectNext
    \/ FlushRemainder
    \/ CloseSink
    \/ Interrupt
SpecBatchInterrupted == InitBatch /\ [][NextBatchInterrupted]_vars


(***************************************************************************)
(* Properties of _parse_response (SpecParse)                               *)
(***************************************************************************)
\* The text holds a brace-delimited span that decodes to an object.
Decodes(text) == re_search(text) # <<>> /\ json_loads(re_search(text)).ok
ObjectOf(text) == json_loads(re_search(text)).obj

FirstDefault ==
    [recommendation |-> Str("baochi"), reason |-> Str("fenxi_wancheng"),
     action |-> Str("baochi"), predicted_price |-> 0, predicted_buy_price |-> 0,
     predicted_sell_price |-> 0, confidence |-> 5]

PriceKeys ==
    {"yuce_jiage", "yuce_jiage_T1", "yuce_mairu_jiage", "yuce_mairu_jiage_T1",
     "yuce_maichu_jiage", "yuce_maichu_jiage_T1"}

\* Every price field of the object is a number or a string that spells one.
PricesCoerce(obj) ==
    \A k \in PriceKeys \cap DOMAIN obj :
        \/ obj[k].t = "num"
        \/ obj[k].t = "str" /\ obj[k].s \in DOMAIN NumericStrings

\* C8: _parse_response never raises: whatever the text, the call ends with a
\* Recommendation and not with an exception.
C8_NeverRaises == parsed # NotRun => parsed.exc = "none"

C10_ActionIsBuy ==
    response = BuyReply /\ parsed # NotRun
        => /\ parsed.exc = "none"
           /\ parsed.value.action \in {Str("mairu"), Str("mai")}
           /\ parsed.value.confidence = 8

\* C10, amended: that text parses to a Recommendation whose recommendation
\* field is buy and whose confidence is 0.8; its action field, read from the
\* absent key "dongzuo", is the default hold, its reason is "analysis
\* complete" and its prices are 0.
C10_RecommendationIsBuy ==
    response = BuyReply /\ parsed # NotRun
        => parsed = [exc |-> "none",
                     value |-> [recommendation |-> Str("mairu"),
                                reason |-> Str("fenxi_wancheng"),
                                action |-> Str("baochi"),
                                predicted_price |-> 0, predicted_buy_price |-> 0,
                                predicted_sell_price |-> 0, confidence |-> 8]]

\* The text of C10 was parsed.
C10_Witness ==
    /\ response = BuyReply
    /\ parsed.exc = "none"
    /\ parsed.value.recommendation = Str("mairu")

(***************************************************************************)
(* Properties of the analyzers and the cache (SpecAnalyze)                 *)
(***************************************************************************)
\* C1: a call returns the stored result and issues no language-model call
\* when llm_cache holds, for its code and mode, an entry stored on the same
\* calendar date and less than 24 hours before the call; this holds for
\* analyze_stock, for analyze, and for the analyze_stock that analyze falls
\* back to.
C1_FreshEntryServed ==
    pc = "done" =>
        /\ \A e \in log.entries :
              e.date = log.date /\ log.issued - e.timestamp < 24
                 => ret = ReturnValue(e.result) /\ llm_calls = NoCalls
        /\ log.failed_stage # 0 =>
              \A e \in EntriesOf(log.fb.cache, stock_data.code, "single") :
                 e.date = log.fb.date /\ log.fb.time - e.timestamp < 24
                    => ret = ReturnValue(e.result) /\ llm_calls.single = 0

\* A staged call issued 23 hours after the store of the same day's staged
\* entry returned that entry without a language-model call.
C1_Witness ==
    /\ pc = "done"
    /\ mode = "multi"
    /\ \E e \in log.entries :
          /\ e.date = log.date
          /\ log.issued - e.timestamp = 23
          /\ ret = ReturnValue(e.result)
    /\ llm_calls = NoCalls

\* C2: when a node of the graph raised, analyze ends as analyze_stock ends on
\* the same snapshot and history in the cache state and at the time of the
\* fallback (the same return value, or the same exception); nothing of the
\* texts the nodes wrote is in it.
C2_FallbackEqualsSingleShot ==
    pc = "done" /\ mode = "multi" /\ log.failed_stage # 0
        => ret = analyze_stock(log.fb.cache, log.fb.time, log.fb.date,
                               stock_data, history_ok, log.fb.backend).ret

\* The trader node raised after two nodes had written their texts, and the
\* fallback returned the buy recommendation the backend then gave.
C2_Witness ==
    /\ pc = "done"
    /\ mode = "multi"
    /\ log.failed_stage = 3
    /\ state.technical_analysis = Report
    /\ ret.kind = "value"
    /\ ret.value.recommendation = Str("mairu")

\* C7: a call issued when every llm_cache entry of its code and mode is 24
\* hours old or older issues at least one language-model call.
C7_ExpiredEntryRefreshed ==
    pc = "done" /\ log.entries # {}
                /\ (\A e \in log.entries : log.issued - e.timestamp >= 24)
        => llm_calls # NoCalls

(***************************************************************************)
(* Properties of analyze_multiple_stocks (SpecBatch)                       *)
(***************************************************************************)
IsError(r) == "error" \in DOMAIN r
AbsentProfile == {k \in DOMAIN stock_codes : stock_codes[k] \notin DOMAIN stock_infos}

\* The profile, the quote and a well-formed history of position k are there.
Succeeds(k) ==
    /\ stock_codes[k] \in DOMAIN stock_infos
    /\ stock_infos[stock_codes[k]].full_code \in DOMAIN real_time_data_dict
    /\ history_data_dict[stock_infos[stock_codes[k]].full_code]

\* C3: analyze_multiple_stocks returns one record per element of stock_codes,
\* whatever profiles and quotes are absent and whatever the tasks raise; when
\* exactly one element has no profile and the rest succeeds, the record of
\* that element is the only error record.
C3_OneRecordPerCode ==
    bpc = "returned" =>
        /\ Len(results) = Len(stock_codes)
        /\ Cardinality(AbsentProfile) = 1
              /\ (\A k \in DOMAIN stock_codes \ AbsentProfile : Succeeds(k))
              => {k \in DOMAIN results : IsError(results[k])} = AbsentProfile

\* Three codes, the second without a profile: three records, the second the
\* only error record.
C3_Witness ==
    /\ bpc = "returned"
    /\ Len(stock_codes) = 3
    /\ AbsentProfile = {2}
    /\ Len(results) = 3
    /\ {k \in DOMAIN results : IsError(results[k])} = {2}

\* The file without its line ends.
Visible(content) == SelectSeq(content, LAMBDA x : x.t # "nl")

\* The records, a comma between every two.
RECURSIVE Joined(_)
Joined(recs) ==
    IF Len(recs) = 1 THEN <<RecTok(recs[1])>>
    ELSE <<RecTok(recs[1]), Tok(",")>> \o Joined(Tail(recs))

\* C4: from a file that does not exist, a run over N >= 1 codes with
\* save_batch_size >= 1 and an output file leaves, when it has returned, one
\* closed array of the N records: "[", the records with a comma between every
\* two, "]".
C4_ClosedArray ==
    bpc = "returned" /\ Len(stock_codes) >= 1 /\ save_batch_size >= 1 /\ output_file
                     /\ ~sink0.exists
        => /\ sink.exists
           /\ Len(results) = Len(stock_codes)
           /\ Visible(sink.content) = <<Tok("[")>> \o Joined(results) \o <<Tok("]")>>

\* Three codes saved in batches of two: a flush of two, the remainder, "]".
C4_Witness ==
    /\ bpc = "returned"
    /\ ~sink0.exists
    /\ Len(stock_codes) = 3
    /\ save_batch_size = 2
    /\ output_file
    /\ Len(Visible(sink.content)) = 7

\* The records of the file, in its order.
RecordsIn(content) ==
    LET recs == SelectSeq(content, LAMBDA x : x.t = "rec")
    IN  [k \in DOMAIN recs |-> recs[k].r]

C6_BulkFetchesOnce ==
    /\ fetches.quotes <= 1
    /\ fetches.history <= 1
    /\ bpc \in {"collect", "close", "returned"}
          => fetches.quotes = 1 /\ fetches.history = 1

\* Three tasks have run on two full codes after one bulk call of each kind.
C6_Witness ==
    /\ bpc = "returned"
    /\ Len(tasks) = 3
    /\ \A k \in DOMAIN tasks : tasks[k].calls >= 1
    /\ fetches.requests = 2
    /\ fetches.quotes = 1
    /\ fetches.history = 1

(***************************************************************************)
(* Further properties of the analyzers and the cache (SpecAnalyze)         *)
(***************************************************************************)
\* C11: a call of LLMService.analyze_stock ends with a Recommendation and
\* never with an exception, whatever the snapshot, the history and the
\* backend's answer.
C11_NeverPropagates == pc = "done" /\ mode = "single" => ret.kind = "value"

\* C12: on a miss of the "multi" key the nodes run in the order fundamental,
\* technical, trader, final decision, each once and with one language-model
\* call each: a node is entered with exactly the calls and the texts of its
\* predecessors, so the trader node finds the fundamental and the technical
\* text written and the final node finds all three; the parser has run only
\* when the final node has (four calls issued).
C12_StagesInOrder ==
    /\ llm_calls.stage <= 4
    /\ pc = "fundamental" => llm_calls.stage = 0 /\ state = InitialState
    /\ pc = "technical" =>
          /\ llm_calls.stage = 1
          /\ state.fundamental_analyst = Report
          /\ state.technical_analysis = Unset
    /\ pc = "trader" =>
          /\ llm_calls.stage = 2
          /\ state.fundamental_analyst = Report
          /\ state.technical_analysis = Report
          /\ state.trader_analysis = Unset
    /\ pc = "final" =>
          /\ llm_calls.stage = 3
          /\ state.fundamental_analyst = Report
          /\ state.technical_analysis = Report
          /\ state.trader_analysis = Report
          /\ state.final_recommendation = NotRun
    /\ pc = "except" => llm_calls.stage = log.failed_stage
    /\ state.final_recommendation # NotRun => llm_calls.stage = 4
    /\ pc = "store" => state.final_recommendation # NotRun

\* The four nodes have run and the graph has returned its recommendation.
C12_Witness ==
    /\ pc = "store"
    /\ llm_calls.stage = 4
    /\ state.trader_analysis = Report
    /\ state.final_recommendation.value.recommendation = Str("mairu")

(***************************************************************************)
(* Further properties of analyze_multiple_stocks (SpecBatch)               *)
(***************************************************************************)
ErrorFields == {"code", "name", "error"}
FullFields ==
    {"code", "name", "analysis_date", "current_price", "change_percent",
     "recommendation", "reason", "action", "predicted_price",
     "predicted_buy_price", "predicted_sell_price", "confidence"}

\* The profile or the quote of position k is absent.
NotFound(k) ==
    \/ stock_codes[k] \notin DOMAIN stock_infos
    \/ stock_infos[stock_codes[k]].full_code \notin DOMAIN real_time_data_dict

\* C13: the record a task returns has the fields of an error record (code,
\* name, error) or those of a full record (the snapshot fields and the seven
\* recommendation fields, no error), never a mixture; a task whose profile or
\* quote is absent returns an error record and issued no language-model call.
C13_ErrorOrFull ==
    /\ \A k \in DOMAIN tasks :
          tasks[k].pc = "done" =>
             /\ DOMAIN tasks[k].result \in {ErrorFields, FullFields}
             /\ NotFound(k) => DOMAIN tasks[k].result = ErrorFields /\ tasks[k].calls = 0
    /\ \A k \in DOMAIN results : DOMAIN results[k] \in {ErrorFields, FullFields}

\* A run returned an error record for a code without quote, made without a
\* language-model call, next to a full record.
C13_Witness ==
    /\ bpc = "returned"
    /\ \E k \in DOMAIN results :
          /\ stock_codes[k] \in DOMAIN stock_infos
          /\ NotFound(k)
          /\ DOMAIN results[k] = ErrorFields
          /\ tasks[k].calls = 0
    /\ \E k \in DOMAIN results : DOMAIN results[k] = FullFields /\ tasks[k].calls >= 1

\* C14, as stated: a code whose profile is absent from stock_infos is not
\* submitted to the pool; no task exists for it.
C14_AbsentProfileNotSubmitted ==
    \A k \in DOMAIN tasks : tasks[k].code \in DOMAIN stock_infos

\* C14, amended: every element of stock_codes is submitted to the pool, the
\* ones without profile included; the task of such a code returns the
\* "no profile" error record under the name "weizhi" without a language-model
\* call, and it is that task's record that is collected.
C14_AbsentProfileTaskInPool ==
    bpc \in {"collect", "close", "returned"} =>
        /\ Len(tasks) = Len(stock_codes)
        /\ \A k \in DOMAIN tasks :
              /\ tasks[k].code = stock_codes[k]
              /\ stock_codes[k] \notin DOMAIN stock_infos /\ tasks[k].pc = "done" =>
                    /\ tasks[k].result =
                          [code |-> stock_codes[k], name |-> "weizhi", error |-> "no profile"]
                    /\ tasks[k].calls = 0
                    /\ \E n \in DOMAIN finished : finished[n] = k
                    /\ k \in DOMAIN results => results[k] = tasks[k].result

\* The pool ran a task for a code without profile and its error record was
\* returned.
C14_Witness ==
    /\ bpc = "returned"
    /\ \E k \in DOMAIN tasks :
          /\ stock_codes[k] \notin DOMAIN stock_infos
          /\ tasks[k].pc = "done"
          /\ \E n \in DOMAIN finished : finished[n] = k
          /\ results[k].error = "no profile"

\* The bulk quote fetch asked for at least one full code and every request
\* failed: the quote source was wholly unreachable.
QuoteOutage ==
    fetches.quotes = 1 /\ fetches.requests >= 1 /\ real_time_data_dict = <<>>

\* C15, as stated: after a bulk quote fetch in which the quote source was
\* wholly unreachable no task runs and no list is returned.
C15_OutageAborts ==
    QuoteOutage =>
        /\ \A k \in DOMAIN tasks : tasks[k].pc = "queued"
        /\ bpc # "returned"

\* C15, amended: a wholly unreachable quote source does not abort the run:
\* the run goes on until it returns, and it returns one error record per
\* element of stock_codes, "no quote" for a code with a profile and
\* "no profile" for the others, made without a language-model call.
C15_OutageYieldsErrorRecords ==
    QuoteOutage =>
        /\ bpc # "returned" => ENABLED NextBatch
        /\ bpc = "returned" =>
              /\ Len(results) = Len(stock_codes)
              /\ llm_cache = <<>>
              /\ \A k \in DOMAIN results :
                    /\ tasks[k].calls = 0
                    /\ results[k] =
                          IF stock_codes[k] \in DOMAIN stock_infos
                          THEN [code |-> stock_codes[k],
                                name |-> stock_infos[stock_codes[k]].name,
                                error |-> "no quote"]
                          ELSE [code |-> stock_codes[k], name |-> "weizhi",
                                error |-> "no profile"]

\* Three codes with profiles, the quote source unreachable: three "no quote"
\* records were returned.
C15_Witness ==
    /\ QuoteOutage
    /\ bpc = "returned"
    /\ Len(results) = 3
    /\ fetches.requests = 2
    /\ \A k \in DOMAIN results : results[k].error = "no quote"

\* C16: the output file is written by the loop of analyze_multiple_stocks
\* only: a step that changes the file is no step of a pool task (it changes
\* no task and completes none), and it is one whole save_results call or the
\* closing write of the one coordinating thread, so no two writes overlap.
C16_OnlyCoordinatorWrites ==
    [][sink' # sink =>
          /\ tasks' = tasks
          /\ finished' = finished
          /\ llm_cache' = llm_cache
          /\ bpc \in {"collect", "close"}]_vars

\* The file has been written while a pool task is still analysing.
C16_Witness ==
    /\ sink.exists
    /\ bpc = "collect"
    /\ \E k \in DOMAIN tasks : tasks[k].pc = "analyzing"

\* C17: whatever the output file held before the run (nothing, an empty text,
\* the closed array of an earlier run), a run over N >= 1 codes with
\* save_batch_size >= 1 and an output file leaves, when it has returned,
\* exactly the array of its own records: "[", the records of results with a
\* comma between every two, "]".
C17_ArrayOfThisRun ==
    bpc = "returned" /\ Len(stock_codes) >= 1 /\ save_batch_size >= 1 /\ output_file
        => Visible(sink.content) = <<Tok("[")>> \o Joined(results) \o <<Tok("]")>>

\* The cache key task i works under: that of the snapshot of its code, today,
\* in the mode of the run.
TaskKey(i) ==
    CacheKey(real_time_data_dict[stock_infos[tasks[i].code].full_code].code,
             current_date, IF use_multi_role THEN "multi" ELSE "single")

\* The tasks that have looked up the cache, missed, and have not stored yet.
BetweenLookupAndStore == {i \in DOMAIN tasks : tasks[i].pc = "analyzing"}

\* C18: during a batch run, for every list of codes (a code may occur more
\* than once), no two tasks are between their cache lookup and their cache
\* store under the same key at the same time.
C18_OneTaskPerKey ==
    \A i \in BetweenLookupAndStore : \A j \in BetweenLookupAndStore :
        i # j => TaskKey(i) # TaskKey(j)

\* C19: no step removes a key of llm_cache, and the entry under a key changes
\* only by the store of a call that works under this key (the store of
\* analyze_stock or of analyze), which stamps it with the present time; in
\* every other step, however old the entry is, it keeps its value.
C19_NoEntryRemoved ==
    [][/\ DOMAIN llm_cache \subseteq DOMAIN llm_cache'
       /\ \A k \in DOMAIN llm_cache :
            llm_cache'[k] # llm_cache[k]
                => /\ k = cache_key
                   /\ pc \in {"single_invoke", "store"}
                   /\ llm_cache'[k].timestamp = now]_vars

\* A call has just stored under its key while an entry past the expiry window
\* is in the cache under another key.
C19_Witness ==
    /\ pc = "done"
    /\ cache_key \in DOMAIN llm_cache
    /\ llm_cache[cache_key].timestamp = now
    /\ \E k \in DOMAIN llm_cache :
         k # cache_key /\ ~NotExpired(now, llm_cache[k].timestamp)

\* What the run has appended to what the file held before it.
Written ==
    SubSeq(RecordsIn(sink.content), Len(RecordsIn(sink0.content)) + 1,
           Len(RecordsIn(sink.content)))

\* C20: with save_batch_size = b >= 1 and an output file, the records are
\* flushed every time b of them are collected and unflushed, and the remainder
\* is flushed after the loop: while the loop runs temp_results holds the
\* Len(results) % b last records, after the loop it is empty, and the records
\* the run has written to the file are the records of results before those, a
\* prefix of the returned list. Without save_batch_size or without an output
\* file the run writes nothing.
C20_FlushEveryBatch ==
    IF save_batch_size >= 1 /\ output_file
    THEN /\ Len(temp_results) < save_batch_size
         /\ bpc = "collect" => Len(temp_results) = Len(results) % save_batch_size
         /\ bpc \in {"close", "returned"} => temp_results = <<>>
         /\ Len(RecordsIn(sink.content)) >= Len(RecordsIn(sink0.content))
         /\ Written = SubSeq(results, 1, Len(results) - Len(temp_results))
    ELSE sink = sink0

\* Three records are collected with save_batch_size = 2: two are in the
\* file, the third waits in temp_results for the flush of the remainder.
C20_Witness ==
    /\ bpc = "collect"
    /\ save_batch_size = 2
    /\ output_file
    /\ Len(results) = 3
    /\ Len(temp_results) = 1
    /\ Len(Written) = 2

\* A JSON document that is one array of records: "[", records with a comma
\* between every two (or none), "]".
IsJsonArray(content) ==
    LET v == Visible(content)
        n == Len(v)
    IN  /\ n >= 2
        /\ v[1] = Tok("[")
        /\ v[n] = Tok("]")
        /\ n = 2 \/ n % 2 = 1
        /\ \A k \in 2..(n - 1) :
              IF k % 2 = 0 THEN v[k].t = "rec" ELSE v[k] = Tok(",")

\* The run has flushed and has not written the closing bracket.
FlushedNotClosed ==
    /\ save_batch_size >= 1 /\ output_file
    /\ bpc \in {"collect", "close", "interrupted"}
    /\ Len(results) - Len(temp_results) >= 1

\* C21: between its first flush and its closing step, and for good once it is
\* interrupted, an incremental run's file holds every flushed record, ends
\* with the last flushed record and not with a closing bracket, and is not a
\* JSON array (from a missing or empty file it is "[" and the flushed records
\* with their commas); after an interrupt no step changes the file.
C21_FlushedStayUnclosed ==
    /\ [](FlushedNotClosed =>
            /\ Written = SubSeq(results, 1, Len(results) - Len(temp_results))
            /\ Visible(sink.content)[Len(Visible(sink.content))]
                  = RecTok(results[Len(results) - Len(temp_results)])
            /\ ~IsJsonArray(sink.content)
            /\ RecordsIn(sink0.content) = <<>> =>
                  Visible(sink.content)
                     = <<Tok("[")>>
                          \o Joined(SubSeq(results, 1, Len(results) - Len(temp_results))))
    /\ [][bpc = "interrupted" => sink' = sink]_vars

\* A run of three codes with save_batch_size = 2 was interrupted after its
\* first flush: two records are in the file, the array is open.
C21_Witness ==
    /\ bpc = "interrupted"
    /\ save_batch_size = 2
    /\ output_file
    /\ ~sink0.exists
    /\ Len(results) = 3
    /\ Len(Written) = 2
    /\ ~IsJsonArray(sink.content)

\* C22: in a batch run, in either mode, a task that handed _parse_response a
\* reply with no JSON object or with a span that does not decode ends with a
\* full record that carries the parser's default recommendation, never with
\* an error record.
C22_ParseFailureGivesDefaultRecord ==
    \A i \in DOMAIN tasks :
        tasks[i].pc = "done" /\ tasks[i].unparseable
            => LET stock_info == stock_infos[tasks[i].code]
                   sd == real_time_data_dict[stock_info.full_code]
               IN  /\ DOMAIN tasks[i].result = FullFields
                   /\ tasks[i].result
                         = FullRecord(tasks[i].code, stock_info, sd,
                                      DefaultRecommendation, now)

\* A staged run has returned the record of a task whose final node got a reply
\* that could not be parsed.
C22_Witness ==
    /\ bpc = "returned"
    /\ use_multi_role
    /\ \E i \in DOMAIN tasks :
         /\ tasks[i].unparseable
         /\ tasks[i].calls = 4
         /\ results[i].confidence = 5
         /\ results[i].action = Str("baochi")

\* The call has ended, it made at least one language-model call, and every
\* call it made raised: in staged mode the first node's, and in analyze_stock
\* (single-shot mode, or the fallback) its one call, when it got to it.
EveryCallFailed ==
    /\ pc = "done"
    /\ llm_calls.stage + llm_calls.single >= 1
    /\ mode = "multi" => llm_calls.stage = 1 /\ log.failed_stage = 1
    /\ llm_calls.single = 1 => ~log.fb.backend.ok

\* No language-model call for the call's code has ever succeeded: the cache
\* holds no entry of the code.
NoEntryOfCode == \A k \in DOMAIN llm_cache : k[1] # stock_data.code

\* C23: when every language-model call made for a code fails, the analyzer,
\* in single-shot mode and in staged mode through the fallback, returns the
\* safe-hold (hold, confidence 0.5, the three prices equal to the snapshot's
\* current price) and the batch record made of it is a full record.
C23_AllFailSafeHold ==
    EveryCallFailed /\ NoEntryOfCode
        => /\ ret = ReturnValue(SafeHold(stock_data))
           /\ ret.value.action = Str("baochi")
           /\ ret.value.confidence = 5
           /\ ret.value.predicted_price = stock_data.current_price
           /\ ret.value.predicted_buy_price = stock_data.current_price
           /\ ret.value.predicted_sell_price = stock_data.current_price
           /\ DOMAIN RecordOf(stock_data.code, [name |-> "", full_code |-> ""],
                              stock_data, ret, now) = FullFields

\* C24: whatever the order the tasks finish in, the list being returned is in
\* the order of stock_codes: its i-th record is the record of the i-th task
\* and carries the i-th code, so a record is in the list only together with
\* the records of all earlier positions, and the records waiting for a flush
\* are the last ones collected.
C24_CollectedInInputOrder ==
    /\ Len(results) <= Len(tasks)
    /\ \A i \in DOMAIN results :
          /\ results[i].code = stock_codes[i]
          /\ results[i] = tasks[i].result
          /\ \A j \in 1..i : tasks[j].pc = "done" /\ j \in DOMAIN results
    /\ Len(temp_results) <= Len(results)
    /\ temp_results
          = SubSeq(results, Len(results) - Len(temp_results) + 1, Len(results))

\* The second and the third task finished before the first; the first record
\* has been collected, theirs wait although they are done.
C24_Witness ==
    /\ bpc = "collect"
    /\ finished = <<2, 3, 1>>
    /\ Len(results) = 1
    /\ results[1].code = stock_codes[1]
    /\ tasks[2].pc = "done"
    /\ tasks[3].pc = "done"

\* analyze_stock has ended after its language-model call raised, or the parser
\* raised on the reply.
SingleShotFailed ==
    /\ pc = "done"
    /\ llm_calls.single = 1
    /\ ~log.fb.backend.ok \/ _parse_response(log.fb.backend.text).exc # "none"

\* What _parse_response can return.
ParserResults ==
    {_parse_response(t).value : t \in {u \in ReplyTexts : _parse_response(u).exc = "none"}}

C26_FallbackStoresNoStagedEntry ==
    pc = "done" /\ mode = "multi" /\ in_fallback
        => /\ EntriesOf(llm_cache, stock_data.code, "multi") = log.entries
           /\ CacheLookup(llm_cache, CacheKey(stock_data.code, log.date, "multi"),
                          now) = {}
           /\ DOMAIN log.fb.cache \subseteq DOMAIN llm_cache
           /\ \A k \in DOMAIN llm_cache :
                 k \notin DOMAIN log.fb.cache \/ llm_cache[k] # log.fb.cache[k]
                    => k = cache_key /\ k[3] = "single"

\* The second call for the code, a staged one, ran its graph, fell back, and
\* the fallback stored its result: the cache holds a single-shot entry made
\* now and no staged entry.
C26_Witness ==
    /\ pc = "done"
    /\ mode = "multi"
    /\ in_fallback
    /\ ncalls = 2
    /\ llm_calls.stage >= 1
    /\ llm_calls.single = 1
    /\ cache_key \in DOMAIN llm_cache
    /\ llm_cache[cache_key].timestamp = now
    /\ \A k \in DOMAIN llm_cache : k[3] = "single"

\* The staged lookup of the call found a fresh entry when it was issued.
StagedHit ==
    \E e \in log.entries : e.date = log.date /\ NotExpired(log.issued, e.timestamp)

\* The fallback analyze_stock found a fresh single-shot entry.
FallbackHit ==
    CacheLookup(log.fb.cache, CacheKey(stock_data.code, log.fb.date, "single"),
                log.fb.time) # {}

\* C27: one analyze call makes at most five language-model calls: none when
\* the staged lookup hits, four when the graph runs through, and when node k
\* of the graph fails k calls of the graph and then at most one call of
\* analyze_stock, none when the fallback finds a fresh single-shot entry.
C27_AtMostFiveCalls ==
    mode = "multi" =>
        /\ llm_calls.stage <= 4
        /\ llm_calls.single <= 1
        /\ llm_calls.single = 1 => in_fallback
        /\ pc = "done" =>
              /\ llm_calls.stage + llm_calls.single <= 5
              /\ StagedHit => llm_calls.stage = 0 /\ llm_calls.single = 0
              /\ ~StagedHit /\ ~in_fallback => llm_calls.stage = 4 /\ llm_calls.single = 0
              /\ in_fallback =>
                    /\ log.failed_stage \in 1..4
                    /\ llm_calls.stage = log.failed_stage
                    /\ FallbackHit => llm_calls.single = 0

\* The final node failed after the three reports, and the fallback called the
\* language model: five calls.
C27_Witness ==
    /\ pc = "done"
    /\ mode = "multi"
    /\ in_fallback
    /\ log.failed_stage = 4
    /\ llm_calls.stage = 4
    /\ llm_calls.single = 1

\* What the parser makes of an object that has none of the keys it reads.
AllDefaultsRead ==
    [recommendation |-> Str("baochi"), reason |-> Str("fenxi_wancheng"),
     action |-> Str("baochi"), predicted_price |-> 0, predicted_buy_price |-> 0,
     predicted_sell_price |-> 0, confidence |-> -5]

\* C28: a reply that is a JSON object under exactly the field names the
\* single-shot prompt asks for yields none of its values: analyze_stock
\* returns hold, "analysis complete", the three prices 0 and confidence -0.5,
\* and has stored this result under its key as a success.
C28_PromptNamesAreNotRead ==
    pc = "done" /\ llm_calls.single = 1 /\ log.fb.backend = Replied(EnglishReply)
        => /\ _parse_response(EnglishReply) = Returned(AllDefaultsRead)
           /\ ret = ReturnValue(AllDefaultsRead)
           /\ cache_key \in DOMAIN llm_cache
           /\ llm_cache[cache_key] = [result |-> AllDefaultsRead, timestamp |-> now]
           /\ CacheLookup(llm_cache, cache_key, now) = {AllDefaultsRead}

\* analyze_stock got the reply under the prompt's names and stored the
\* defaults: confidence -0.5 although the reply said 0.9.
C28_Witness ==
    /\ pc = "done"
    /\ mode = "single"
    /\ llm_calls.single = 1
    /\ log.fb.backend = Replied(EnglishReply)
    /\ llm_cache[cache_key].result.confidence = -5
    /\ llm_cache[cache_key].result.action = Str("baochi")

====
